---- MODULE Spec2Model ----
(***************************************************************************)
(* Tensor-parallel linear layers of colossalai/shardformer/layer/linear.py *)
(* (Linear1D_Col, Linear1D_Row) on one process group.                      *)
(*                                                                         *)
(* A tensor is a sequence: a vector is a sequence of integers, a matrix of *)
(* shape [rows, cols] is a sequence of rows.  Values are integers, so sums *)
(* are exact and "equal" means equal (no floating-point tolerance).        *)
(* Ranks are 0 .. world_size-1; every variable indexed by rank holds what  *)
(* that rank's process holds.                                              *)
(***************************************************************************)
EXTENDS Integers, Sequences, FiniteSets, TLC

\* ---------------------------------------------------------------- bounds
MaxWorld == 2
MaxFeat == 3
MaxChunk == 2
MaxDraws == 1

\* ---------------------------------------------------------------- state
VARIABLES
    world_size,     \* dist.get_world_size(process_group)
    initial_seed,   \* [rank -> torch.random.initial_seed()]
    rng,            \* [rank -> state of the ambient random generator]
    module,         \* [rank -> the dense nn.Linear held by the caller]
    orig,           \* [rank -> the dense module as it was before conversion]
    layer,          \* [rank -> the object the constructor / conversion returned]
    result,         \* [rank -> outcome of the last call]
    events,         \* [rank -> what the last call did, in order]
    last_input,     \* the logical (full-width) input of the last forward
    call,           \* the last call: its name, its arguments, the state it started in
    pc,             \* [rank -> where the rank's process is in a forward it runs on its own]
    fw,             \* [rank -> the locals of that forward]
    issued          \* [rank -> the collectives the rank has issued on the group, in order]

vars == <<world_size, initial_seed, rng, module, orig, layer, result, events, last_input, call,
          pc, fw, issued>>

\* the part of the state only a forward followed step by step writes
runvars == <<pc, fw, issued>>

Ranks == 0 .. (world_size - 1)

\* ---------------------------------------------------------------- tensors
RECURSIVE Dot(_, _)
Dot(a, b) ==
    IF Len(a) = 0 \/ Len(b) = 0 THEN 0
    ELSE Head(a) * Head(b) + Dot(Tail(a), Tail(b))

\* torch.nn.functional.linear(x, W, b): y[i] = sum_j x[j] * W[i][j] (+ b[i])
F_linear(x, W, has_bias, b) ==
    [i \in 1 .. Len(W) |-> Dot(x, W[i]) + (IF has_bias THEN b[i] ELSE 0)]

\* elementwise sum of the vectors f[0], ..., f[r]
RECURSIVE SumUpTo(_, _)
SumUpTo(f, r) ==
    IF r = 0 THEN f[0]
    ELSE LET s == SumUpTo(f, r - 1)
         IN  [i \in 1 .. Len(s) |-> s[i] + f[r][i]]

\* concatenation of the sequences f[0], ..., f[r], in that order
RECURSIVE CatUpTo(_, _)
CatUpTo(f, r) ==
    IF r = 0 THEN f[0] ELSE CatUpTo(f, r - 1) \o f[r]

\* concatenation of a sequence of sequences
RECURSIVE Flatten(_)
Flatten(ss) ==
    IF Len(ss) = 0 THEN << >> ELSE Head(ss) \o Flatten(Tail(ss))

\* matrices f[0], ..., f[r] (same number of rows) concatenated along dim 1
CatColsUpTo(f, r) ==
    [i \in 1 .. Len(f[0]) |-> CatUpTo([q \in 0 .. r |-> f[q][i]], r)]

\* the r-th (0-based) contiguous block of length k of s
Block(s, k, r) == SubSeq(s, r * k + 1, (r + 1) * k)

\* ---------------------------------------------------------------- random generator
\* The value a generator in state s produces; the state then advances by one.
Val(s) == (s % 11) + 1

Fill(s, n) == [k \in 1 .. n |-> Val(s + k - 1)]

FillMat(s, rows, cols) ==
    [i \in 1 .. rows |-> [j \in 1 .. cols |-> Val(s + (i - 1) * cols + (j - 1))]]

\* ---------------------------------------------------------------- records
NoModule ==
    [present |-> FALSE, in_features |-> 0, out_features |-> 0,
     weight |-> << >>, has_bias |-> FALSE, bias |-> << >>]

NoLayer ==
    [kind |-> "none", in_features |-> 0, out_features |-> 0,
     flag |-> FALSE, skip_bias_add |-> FALSE,
     weight |-> << >>, has_bias |-> FALSE, bias |-> << >>,
     stream_chunk_num |-> 1, weight_list |-> << >>,
     training |-> TRUE, randomizer |-> 0]

NoCall ==
    [name |-> "none", bias |-> FALSE, skip_bias_add |-> FALSE, bias_given |-> FALSE,
     fail |-> "none", training |-> FALSE, rng |-> << >>]

\* The locals of a forward: the argument, input_, the loop index i,
\* output_parallel_list, handle_list (a handle is the position of its
\* collective in the rank's call sequence), how many handles have been waited
\* on, and output_parallel.
NoForward ==
    [arg |-> << >>, input_ |-> << >>, i |-> 0, output_parallel_list |-> << >>,
     handle_list |-> << >>, waited |-> 0, output_parallel |-> << >>]

NoResult ==
    [op |-> "none", err |-> "none", msg |-> << >>, is_tuple |-> FALSE,
     output |-> << >>, has_bias |-> FALSE, bias |-> << >>]

\* ---------------------------------------------------------------- sharding
\* shard_rowwise: split along dimension 0 into world_size contiguous blocks of
\* length dim0 / world_size; rank r keeps block r.
shard_rowwise(t, P, r) == Block(t, Len(t) \div P, r)

\* shard_colwise of a matrix: the same along dimension 1.
shard_colwise(t, P, r) ==
    [i \in 1 .. Len(t) |-> Block(t[i], Len(t[i]) \div P, r)]

\* shard_colwise of a 1-D tensor: along its only dimension.
shard_colwise_1d(t, P, r) == Block(t, Len(t) \div P, r)

\* ---------------------------------------------------------------- collectives
\* AllGather along the last dimension: the ranks' vectors in rank order.
gather_forward_split_backward(parts, P) == CatUpTo(parts, P - 1)

\* Split along the last dimension: the calling rank's block, no communication.
split_forward_gather_backward(x, P, r) == Block(x, Len(x) \div P, r)

\* ReduceSum: elementwise sum of every rank's contribution.
reduce_forward(parts, P) == SumUpTo(parts, P - 1)

\* ---------------------------------------------------------------- randomizer
\* create_randomizer_with_offset: a generator private to the layer, seeded
\* from the base seed offset by the rank; the ambient generator is untouched.
create_randomizer_with_offset(seed, r) == seed + 1 + 3 * r

\* fork_rng: inside the context the ambient generator is the randomizer's;
\* on every exit the randomizer keeps the advanced state and the ambient
\* generator gets back the state saved on entry.  `used` is how far the body
\* advanced the generator.
fork_rng(ambient, randomizer, used) ==
    [rng |-> ambient, randomizer |-> randomizer + used]

\* The initializers (callables handed to the constructor) fill a tensor in
\* place from the current generator.
weight_initializer(s, rows, cols) == FillMat(s, rows, cols)

bias_initializer(s, n) == Fill(s, n)

\* The check with the bias flag's sense inverted.
contradictory_bias_flags_inverted(a) == a.skip_bias_add /\ a.bias

\* `if skip_bias_add and not bias: raise ValueError(...)`, the first check of
\* both constructors.
contradictory_bias_flags(a) == a.skip_bias_add /\ ~a.bias

\* The arguments from_native_module hands to the constructor: the module's
\* sizes and its own weight and bias, and the caller's keyword arguments k.
NativeArgs(m, k) ==
    [in_features |-> m.in_features, out_features |-> m.out_features,
     bias |-> m.has_bias, flag |-> k.flag, skip_bias_add |-> k.skip_bias_add,
     has_weight |-> TRUE, weight |-> m.weight,
     has_bias_ |-> m.has_bias, bias_ |-> m.bias,
     stream_chunk_num |-> k.stream_chunk_num, fail |-> "none"]

\* What a constructor call leaves behind on one rank.
Outcome(err, msg, lay, ambient, ev) ==
    [err |-> err, msg |-> msg, layer |-> lay, rng |-> ambient, ev |-> ev]

\* ---------------------------------------------------------------- Linear1D_Col
\* A reset_parameters that runs the initializers on the ambient generator,
\* outside any fork_rng context.
Linear1D_Col_reset_parameters_nofork(lay, ambient, fail) ==
    LET rows  == Len(lay.weight)
        wn    == rows * lay.in_features
        werr  == fail = "weight"
        berr  == ~werr /\ lay.has_bias /\ fail = "bias"
        used  == (IF werr THEN 1 ELSE wn)
                 + (IF werr \/ ~lay.has_bias THEN 0
                    ELSE IF berr THEN 1 ELSE Len(lay.bias))
    IN  [err |-> IF werr \/ berr THEN "InitError" ELSE "none",
         layer |-> [lay EXCEPT
                      !.weight = IF werr THEN lay.weight
                                 ELSE weight_initializer(ambient, rows, lay.in_features),
                      !.bias = IF werr \/ berr \/ ~lay.has_bias THEN lay.bias
                               ELSE bias_initializer(ambient + wn, Len(lay.bias))],
         rng |-> ambient + used,
         ev |-> <<"init_weight">>
                \o (IF ~werr /\ lay.has_bias THEN <<"init_bias">> ELSE << >>)]

\* reset_parameters: both initializers run inside self.randomizer.fork_rng.
\* `fail` names the initializer that raises ("none", "weight", "bias").
Linear1D_Col_reset_parameters(lay, ambient, fail) ==
    LET s0    == lay.randomizer
        rows  == Len(lay.weight)
        wn    == rows * lay.in_features
        werr  == fail = "weight"
        berr  == ~werr /\ lay.has_bias /\ fail = "bias"
        w     == IF werr THEN lay.weight
                 ELSE weight_initializer(s0, rows, lay.in_features)
        b     == IF werr \/ berr \/ ~lay.has_bias THEN lay.bias
                 ELSE bias_initializer(s0 + wn, Len(lay.bias))
        used  == (IF werr THEN 1 ELSE wn)
                 + (IF werr \/ ~lay.has_bias THEN 0
                    ELSE IF berr THEN 1 ELSE Len(lay.bias))
        out   == fork_rng(ambient, s0, used)
    IN  [err |-> IF werr \/ berr THEN "InitError" ELSE "none",
         layer |-> [lay EXCEPT !.weight = w, !.bias = b,
                               !.randomizer = out.randomizer],
         rng |-> out.rng,
         ev |-> <<"fork_enter", "init_weight">>
                \o (IF ~werr /\ lay.has_bias THEN <<"init_bias">> ELSE << >>)
                \o <<"fork_exit">>]

\* __init__.  a: the arguments; r, P: the calling rank and the group size;
\* seed: torch.random.initial_seed(); ambient: the ambient generator state.
Linear1D_Col__init__(r, P, a, seed, ambient) ==
    IF contradictory_bias_flags(a)
    THEN Outcome("ValueError", << >>, NoLayer, ambient, << >>)
    ELSE IF (a.has_weight /\ a.bias /\ ~a.has_bias_) \/ (~a.has_weight /\ a.has_bias_)
    THEN Outcome("AssertionError", << >>, NoLayer, ambient, <<"randomizer">>)
    ELSE
    LET full_w == IF a.has_weight THEN a.weight
                  ELSE [i \in 1 .. a.out_features |-> [j \in 1 .. a.in_features |-> 0]]
        full_b == IF ~a.bias THEN << >>
                  ELSE IF a.has_bias_ THEN a.bias_
                  ELSE [i \in 1 .. a.out_features |-> 0]
        lay0 == [kind |-> "col",
                 in_features |-> a.in_features, out_features |-> a.out_features,
                 flag |-> a.flag, skip_bias_add |-> a.skip_bias_add,
                 weight |-> shard_rowwise(full_w, P, r),
                 has_bias |-> a.bias,
                 bias |-> IF a.bias THEN shard_colwise_1d(full_b, P, r) ELSE << >>,
                 stream_chunk_num |-> 1, weight_list |-> << >>,
                 training |-> TRUE,
                 randomizer |-> create_randomizer_with_offset(seed, r)]
        ev0 == <<"randomizer">>
               \o (IF a.has_weight THEN << >> ELSE <<"alloc_weight">>)
               \o <<"shard_weight">>
               \o (IF a.bias
                   THEN (IF a.has_bias_ THEN << >> ELSE <<"alloc_bias">>) \o <<"shard_bias">>
                   ELSE << >>)
    IN  IF a.has_weight
        THEN Outcome("none", << >>, lay0, ambient, ev0)
        ELSE LET rp == Linear1D_Col_reset_parameters(lay0, ambient, a.fail)
             IN  Outcome(rp.err, << >>,
                         IF rp.err = "none" THEN rp.layer ELSE NoLayer,
                         rp.rng, ev0 \o rp.ev)

\* The dense module returned as it is.
AsLayer(m) ==
    [NoLayer EXCEPT !.kind = "dense",
                    !.in_features = m.in_features, !.out_features = m.out_features,
                    !.weight = m.weight, !.has_bias = m.has_bias, !.bias = m.bias]

\* A conversion that builds the layer from the module's sizes alone, without
\* handing over its weight and bias.
Linear1D_Col_from_native_module_fresh(r, P, m, k, seed, ambient) ==
    LET head == <<"materialize", "get_world_size">>
    IN  IF m.out_features < P
        THEN Outcome("none", << >>, AsLayer(m), ambient, head)
        ELSE IF m.out_features % P # 0
        THEN Outcome("ValueError", <<m.out_features, P>>, NoLayer, ambient, head)
        ELSE LET o == Linear1D_Col__init__(r, P,
                        [NativeArgs(m, k) EXCEPT !.has_weight = FALSE, !.has_bias_ = FALSE],
                        seed, ambient)
             IN  [o EXCEPT !.ev = head \o o.ev]

\* A conversion without the divisibility check.
Linear1D_Col_from_native_module_nocheck(r, P, m, k, seed, ambient) ==
    LET head == <<"materialize", "get_world_size">>
    IN  IF m.out_features < P
        THEN Outcome("none", << >>, AsLayer(m), ambient, head)
        ELSE LET o == Linear1D_Col__init__(r, P, NativeArgs(m, k), seed, ambient)
             IN  [o EXCEPT !.ev = head \o o.ev]

\* from_native_module.  m: the dense module; k: the keyword arguments passed
\* through to the constructor.
Linear1D_Col_from_native_module(r, P, m, k, seed, ambient) ==
    LET tp_size == P
        head == <<"materialize", "get_world_size">>
    IN  IF m.out_features < tp_size
        THEN Outcome("none", << >>, AsLayer(m), ambient, head)
        ELSE IF m.out_features % tp_size # 0
        THEN Outcome("ValueError", <<m.out_features, tp_size>>, NoLayer, ambient, head)
        ELSE LET o == Linear1D_Col__init__(r, P, NativeArgs(m, k), seed, ambient)
             IN  [o EXCEPT !.ev = head \o o.ev]

\* A forward that returns the local output whatever gather_output says.
Linear1D_Col_forward_nogather(r, P, lays, xs) ==
    LET me == lays[r]
    IN  IF Len(xs[r]) # Len(me.weight[1])
        THEN [NoResult EXCEPT !.op = "forward", !.err = "AssertionError",
                              !.msg = <<Len(xs[r]), Len(me.weight), Len(me.weight[1])>>]
        ELSE [op |-> "forward", err |-> "none", msg |-> << >>,
              is_tuple |-> me.skip_bias_add,
              output |-> F_linear(xs[r], me.weight, me.has_bias /\ ~me.skip_bias_add, me.bias),
              has_bias |-> me.skip_bias_add /\ me.has_bias,
              bias |-> IF me.skip_bias_add THEN me.bias ELSE << >>]

\* A forward that hands the bias to the matmul whatever skip_bias_add says.
Linear1D_Col_forward_addbias(r, P, lays, xs) ==
    LET me == lays[r]
        local(q) == F_linear(xs[q], lays[q].weight, lays[q].has_bias, lays[q].bias)
    IN  IF Len(xs[r]) # Len(me.weight[1])
        THEN [NoResult EXCEPT !.op = "forward", !.err = "AssertionError",
                              !.msg = <<Len(xs[r]), Len(me.weight), Len(me.weight[1])>>]
        ELSE [op |-> "forward", err |-> "none", msg |-> << >>,
              is_tuple |-> me.skip_bias_add,
              output |-> IF me.flag
                         THEN gather_forward_split_backward([q \in 0 .. P - 1 |-> local(q)], P)
                         ELSE local(r),
              has_bias |-> me.skip_bias_add /\ me.has_bias,
              bias |-> IF me.skip_bias_add THEN me.bias ELSE << >>]

\* forward on rank r.  lays: every rank's layer; xs: every rank's input_.
Linear1D_Col_forward(r, P, lays, xs) ==
    LET me == lays[r]
        local(q) == F_linear(xs[q], lays[q].weight,
                             lays[q].has_bias /\ ~lays[q].skip_bias_add, lays[q].bias)
    IN  IF Len(xs[r]) # Len(me.weight[1])
        THEN [NoResult EXCEPT !.op = "forward", !.err = "AssertionError",
                              !.msg = <<Len(xs[r]), Len(me.weight), Len(me.weight[1])>>]
        ELSE [op |-> "forward", err |-> "none", msg |-> << >>,
              is_tuple |-> me.skip_bias_add,
              output |-> IF me.flag
                         THEN gather_forward_split_backward([q \in 0 .. P - 1 |-> local(q)], P)
                         ELSE local(r),
              has_bias |-> me.skip_bias_add /\ me.has_bias,
              bias |-> IF me.skip_bias_add THEN me.bias ELSE << >>]

Linear1D_Col_forward_events(lay, x) ==
    IF Len(x) # Len(lay.weight[1]) THEN << >>
    ELSE <<"matmul">> \o (IF lay.flag THEN <<"all_gather">> ELSE << >>)

\* ---------------------------------------------------------------- Linear1D_Row
\* torch.chunk(t, n, dim=0) as views of t: the row ranges <<lo, hi>> of the
\* chunks, each of ceil(rows / n) rows but the last, as many as that takes.
torch_chunk(rows, n) ==
    LET size  == (rows + n - 1) \div n
        count == (rows + size - 1) \div size
    IN  [k \in 1 .. count |->
            <<(k - 1) * size + 1, IF k * size < rows THEN k * size ELSE rows>>]

\* chunk_weight: self.weight_list = torch.chunk(self.weight, stream_chunk_num, dim=0)
Linear1D_Row_chunk_weight(lay) ==
    [lay EXCEPT !.weight_list = torch_chunk(Len(lay.weight), lay.stream_chunk_num)]

\* The tensor weight_list[i] (0-based i) views.
ChunkOf(lay, i) ==
    SubSeq(lay.weight, lay.weight_list[i + 1][1], lay.weight_list[i + 1][2])

\* dist.broadcast(bias, src): every rank ends with the source rank's tensor.
dist_broadcast(biases, src) == biases[src]

\* A reset_parameters that initializes the bias and does not broadcast it.
Linear1D_Row_reset_parameters_nobroadcast(r, P, lays, fail) ==
    LET lay   == lays[r]
        wn    == Len(lay.weight) * Len(lay.weight[1])
        werr  == fail = "weight"
        berr  == ~werr /\ lay.has_bias /\ fail = "bias"
    IN  [err |-> IF werr \/ berr THEN "InitError" ELSE "none",
         layer |-> [lay EXCEPT
                      !.weight = IF werr THEN lay.weight
                                 ELSE weight_initializer(lay.randomizer, Len(lay.weight),
                                                         Len(lay.weight[1])),
                      !.bias = IF werr \/ berr \/ ~lay.has_bias THEN lay.bias
                               ELSE bias_initializer(lay.randomizer + wn, Len(lay.bias))],
         used |-> (IF werr THEN 1 ELSE wn)
                  + (IF werr \/ ~lay.has_bias THEN 0
                     ELSE IF berr THEN 1 ELSE Len(lay.bias)),
         ev |-> <<"init_weight">>
                \o (IF ~werr /\ lay.has_bias THEN <<"init_bias">> ELSE << >>)]

\* reset_parameters on rank r.  lays: every rank's layer when the call starts;
\* `fail` names the step that raises ("none", "weight", "bias", "broadcast").
\* used: how far the call advanced the current generator.
Linear1D_Row_reset_parameters(r, P, lays, fail) ==
    LET lay   == lays[r]
        wn    == Len(lay.weight) * Len(lay.weight[1])
        own(q) == bias_initializer(
                     lays[q].randomizer + Len(lays[q].weight) * Len(lays[q].weight[1]),
                     Len(lays[q].bias))
        src_rank == 0
        werr  == fail = "weight"
        berr  == ~werr /\ lay.has_bias /\ fail = "bias"
        cerr  == ~werr /\ lay.has_bias /\ fail = "broadcast"
        w     == IF werr THEN lay.weight
                 ELSE weight_initializer(lay.randomizer, Len(lay.weight), Len(lay.weight[1]))
        b     == IF werr \/ berr \/ ~lay.has_bias THEN lay.bias
                 ELSE IF cerr THEN own(r)
                 ELSE dist_broadcast([q \in 0 .. P - 1 |-> own(q)], src_rank)
    IN  [err |-> IF werr \/ berr \/ cerr THEN "InitError" ELSE "none",
         layer |-> [lay EXCEPT !.weight = w, !.bias = b],
         used |-> (IF werr THEN 1 ELSE wn)
                  + (IF werr \/ ~lay.has_bias THEN 0
                     ELSE IF berr THEN 1 ELSE Len(lay.bias)),
         ev |-> <<"init_weight">>
                \o (IF ~werr /\ lay.has_bias THEN <<"init_bias">> ELSE << >>)
                \o (IF ~werr /\ ~berr /\ lay.has_bias THEN <<"broadcast">> ELSE << >>)]

\* __init__ on rank r.  seeds: every rank's torch.random.initial_seed().
Linear1D_Row__init__(r, P, a, seeds, ambient) ==
    IF contradictory_bias_flags(a)
    THEN Outcome("ValueError", << >>, NoLayer, ambient, <<"get_world_size">>)
    ELSE IF (a.has_weight /\ a.bias /\ ~a.has_bias_) \/ (~a.has_weight /\ a.has_bias_)
    THEN Outcome("AssertionError", << >>, NoLayer, ambient,
                 <<"get_world_size", "randomizer">>)
    ELSE
    LET full_w == IF a.has_weight THEN a.weight
                  ELSE [i \in 1 .. a.out_features |-> [j \in 1 .. a.in_features |-> 0]]
        sharded(q) ==
            [kind |-> "row",
             in_features |-> a.in_features, out_features |-> a.out_features,
             flag |-> a.flag, skip_bias_add |-> a.skip_bias_add,
             weight |-> shard_colwise(full_w, P, q),
             has_bias |-> a.bias,
             bias |-> IF ~a.bias THEN << >>
                      ELSE IF a.has_bias_ THEN a.bias_
                      ELSE [i \in 1 .. a.out_features |-> 0],
             stream_chunk_num |-> a.stream_chunk_num, weight_list |-> << >>,
             training |-> TRUE,
             randomizer |-> create_randomizer_with_offset(seeds[q], q)]
        lay0(q) == IF a.stream_chunk_num > 1
                   THEN Linear1D_Row_chunk_weight(sharded(q)) ELSE sharded(q)
        ev0 == <<"get_world_size", "randomizer">>
               \o (IF a.has_weight THEN << >> ELSE <<"alloc_weight">>)
               \o <<"shard_weight">>
               \o (IF a.stream_chunk_num > 1 THEN <<"chunk_weight">> ELSE << >>)
               \o (IF a.bias /\ ~a.has_bias_ THEN <<"alloc_bias">> ELSE << >>)
    IN  IF a.has_weight
        THEN Outcome("none", << >>, lay0(r), ambient, ev0)
        ELSE LET rp  == Linear1D_Row_reset_parameters(r, P, [q \in 0 .. P - 1 |-> lay0(q)],
                                                      a.fail)
                 out == fork_rng(ambient, lay0(r).randomizer, rp.used)
             IN  Outcome(rp.err, << >>,
                         IF rp.err = "none"
                         THEN [rp.layer EXCEPT !.randomizer = out.randomizer]
                         ELSE NoLayer,
                         out.rng,
                         ev0 \o <<"fork_enter">> \o rp.ev \o <<"fork_exit">>)

\* A conversion that checks divisibility before the small-size fallback.
Linear1D_Row_from_native_module_divfirst(r, P, m, k, seeds, ambient) ==
    LET head == <<"materialize", "get_world_size">>
    IN  IF m.in_features % P # 0
        THEN Outcome("ValueError", <<m.in_features, P>>, NoLayer, ambient, head)
        ELSE IF m.in_features < P
        THEN Outcome("none", << >>, AsLayer(m), ambient, head)
        ELSE LET o == Linear1D_Row__init__(r, P, NativeArgs(m, k), seeds, ambient)
             IN  [o EXCEPT !.ev = head \o o.ev]

\* from_native_module.  m: the dense module; k: the keyword arguments passed
\* through to the constructor.
Linear1D_Row_from_native_module(r, P, m, k, seeds, ambient) ==
    LET tp_size == P
        head == <<"materialize", "get_world_size">>
    IN  IF m.in_features < tp_size
        THEN Outcome("none", << >>, AsLayer(m), ambient, head)
        ELSE IF m.in_features % tp_size # 0
        THEN Outcome("ValueError", <<m.in_features, tp_size>>, NoLayer, ambient, head)
        ELSE LET o == Linear1D_Row__init__(r, P, NativeArgs(m, k), seeds, ambient)
             IN  [o EXCEPT !.ev = head \o o.ev]

\* The shape check of forward and the input the matmul reads: parallel_input
\* takes input_ as it is, otherwise the rank's block of the replicated input.
Row_shape_ok(lay, P, x) ==
    IF lay.flag THEN Len(x) = Len(lay.weight[1])
    ELSE Len(x) % P = 0 /\ Len(x) \div P = Len(lay.weight[1])

Row_input(lay, P, r, x) ==
    IF lay.flag THEN x ELSE split_forward_gather_backward(x, P, r)

\* A branch choice that lets a layer in training mode take the standard path
\* whatever its chunk count.
Row_path_trainingstandard(lay) ==
    IF lay.stream_chunk_num > 1 /\ ~lay.training THEN "chunked" ELSE "standard"

\* A branch choice that never looks at self.training.
Row_path_notraining(lay) ==
    IF lay.stream_chunk_num > 1 THEN "chunked" ELSE "standard"

\* The branch forward takes once the shape check has passed.
Row_path(lay) ==
    IF lay.stream_chunk_num > 1
    THEN (IF lay.training THEN "training_error" ELSE "chunked")
    ELSE "standard"

\* forward on rank r.  lays: every rank's layer; xs: every rank's input_.
Linear1D_Row_forward(r, P, lays, xs) ==
    LET me == lays[r]
        n  == me.stream_chunk_num
        inp(q) == Row_input(lays[q], P, q, xs[q])
        reduced_chunk(i) ==
            reduce_forward([q \in 0 .. P - 1 |-> F_linear(inp(q), ChunkOf(lays[q], i), FALSE, << >>)], P)
        raised(e, m) == [NoResult EXCEPT !.op = "forward", !.err = e, !.msg = m]
        finish(output) ==
            IF ~me.skip_bias_add
            THEN [op |-> "forward", err |-> "none", msg |-> << >>, is_tuple |-> FALSE,
                  output |-> IF me.has_bias
                             THEN [i \in 1 .. Len(output) |-> output[i] + me.bias[i]]
                             ELSE output,
                  has_bias |-> FALSE, bias |-> << >>]
            ELSE [op |-> "forward", err |-> "none", msg |-> << >>, is_tuple |-> TRUE,
                  output |-> output, has_bias |-> me.has_bias, bias |-> me.bias]
    IN  IF ~Row_shape_ok(me, P, xs[r])
        THEN raised("AssertionError",
                    <<Len(xs[r]), Len(me.weight), Len(me.weight[1])>>)
        ELSE IF Row_path(me) = "training_error" THEN raised("RuntimeError", << >>)
        ELSE IF Row_path(me) = "chunked"
        THEN IF Len(me.weight_list) < n THEN raised("IndexError", << >>)
             ELSE finish(Flatten([k \in 1 .. n |-> reduced_chunk(k - 1)]))
        ELSE finish(reduce_forward(
                 [q \in 0 .. P - 1 |-> F_linear(inp(q), lays[q].weight, FALSE, << >>)], P))

RECURSIVE Repeat(_, _)
Repeat(s, n) == IF n = 0 THEN << >> ELSE s \o Repeat(s, n - 1)

Linear1D_Row_forward_events(lay, P, x) ==
    LET n == lay.stream_chunk_num
        done == IF Len(lay.weight_list) < n THEN Len(lay.weight_list) ELSE n
    IN  IF ~Row_shape_ok(lay, P, x) THEN << >>
        ELSE (IF lay.flag THEN << >> ELSE <<"split">>)
             \o (IF Row_path(lay) = "training_error" THEN << >>
                 ELSE IF Row_path(lay) = "chunked"
                 THEN Repeat(<<"matmul", "all_reduce_async">>, done)
                      \o (IF done < n THEN << >>
                          ELSE Repeat(<<"wait">>, n) \o <<"cat">>)
                 ELSE <<"matmul", "all_reduce">>)

\* ---------------------------------------------------------------- initial state
Init ==
    /\ world_size \in 1 .. MaxWorld
    /\ \E d \in {0, 1} : initial_seed = [r \in 0 .. (world_size - 1) |-> d * r]
    /\ rng = initial_seed
    /\ module = [r \in 0 .. (world_size - 1) |-> NoModule]
    /\ orig = module
    /\ layer = [r \in 0 .. (world_size - 1) |-> NoLayer]
    /\ result = [r \in 0 .. (world_size - 1) |-> NoResult]
    /\ events = [r \in 0 .. (world_size - 1) |-> << >>]
    /\ last_input = << >>
    /\ call = NoCall
    /\ pc = [r \in 0 .. (world_size - 1) |-> "idle"]
    /\ fw = [r \in 0 .. (world_size - 1) |-> NoForward]
    /\ issued = [r \in 0 .. (world_size - 1) |-> << >>]

\* nn.Linear(in_features, out_features, bias): the dense layer, initialised
\* from the rank's ambient random generator.
NewDense(in_f, out_f, bias) ==
    /\ \A r \in Ranks : ~module[r].present /\ layer[r].kind = "none"
    /\ result[0].op = "none"
    /\ module' = [r \in Ranks |->
          [present |-> TRUE, in_features |-> in_f, out_features |-> out_f,
           weight |-> FillMat(rng[r], out_f, in_f),
           has_bias |-> bias,
           bias |-> IF bias THEN Fill(rng[r] + out_f * in_f, out_f) ELSE << >>]]
    /\ orig' = module'
    /\ rng' = [r \in Ranks |-> rng[r] + out_f * in_f + (IF bias THEN out_f ELSE 0)]
    /\ UNCHANGED runvars
    /\ UNCHANGED <<world_size, initial_seed, layer, result, events, last_input, call>>

\* ---------------------------------------------------------------- calls
ConstructResult(o) ==
    [NoResult EXCEPT !.op = "construct", !.err = o.err, !.msg = o.msg]

NoCallYet == \A r \in Ranks : layer[r].kind = "none" /\ result[r].op = "none"

FreshArgs(in_f, out_f, bias, flag, skip, bias_given, chunks, fail) ==
    [in_features |-> in_f, out_features |-> out_f, bias |-> bias, flag |-> flag,
     skip_bias_add |-> skip, has_weight |-> FALSE, weight |-> << >>,
     has_bias_ |-> bias_given, bias_ |-> IF bias_given THEN [i \in 1 .. out_f |-> 0] ELSE << >>,
     stream_chunk_num |-> chunks, fail |-> fail]

\* The parameters of a converted layer are the module's own Parameter objects,
\* sharded in place.
Converted(m, lay) ==
    IF lay.kind \in {"col", "row"}
    THEN [m EXCEPT !.weight = lay.weight, !.bias = lay.bias]
    ELSE m

\* Every rank calls Linear1D_Col(in_f, out_f, bias, gather_output=flag, ...).
ColConstruct(in_f, out_f, bias, flag, skip, bias_given, fail) ==
    /\ NoCallYet
    /\ \A r \in Ranks : ~module[r].present
    /\ out_f % world_size = 0
    /\ LET a == FreshArgs(in_f, out_f, bias, flag, skip, bias_given, 1, fail)
           o == [r \in Ranks |-> Linear1D_Col__init__(r, world_size, a, initial_seed[r], rng[r])]
       IN  /\ layer' = [r \in Ranks |-> o[r].layer]
           /\ rng' = [r \in Ranks |-> o[r].rng]
           /\ result' = [r \in Ranks |-> ConstructResult(o[r])]
           /\ events' = [r \in Ranks |-> o[r].ev]
    /\ call' = [name |-> "Col.__init__", bias |-> bias, skip_bias_add |-> skip,
                bias_given |-> bias_given, fail |-> fail, training |-> FALSE, rng |-> rng]
    /\ UNCHANGED runvars
    /\ UNCHANGED <<world_size, initial_seed, module, orig, last_input>>

\* Every rank calls Linear1D_Row(in_f, out_f, bias, parallel_input=flag, ...).
RowConstruct(in_f, out_f, bias, flag, skip, bias_given, chunks, fail) ==
    /\ NoCallYet
    /\ \A r \in Ranks : ~module[r].present
    /\ in_f % world_size = 0
    /\ LET a == FreshArgs(in_f, out_f, bias, flag, skip, bias_given, chunks, fail)
           o == [r \in Ranks |-> Linear1D_Row__init__(r, world_size, a, initial_seed, rng[r])]
       IN  /\ layer' = [r \in Ranks |-> o[r].layer]
           /\ rng' = [r \in Ranks |-> o[r].rng]
           /\ result' = [r \in Ranks |-> ConstructResult(o[r])]
           /\ events' = [r \in Ranks |-> o[r].ev]
    /\ call' = [name |-> "Row.__init__", bias |-> bias, skip_bias_add |-> skip,
                bias_given |-> bias_given, fail |-> fail, training |-> FALSE, rng |-> rng]
    /\ UNCHANGED runvars
    /\ UNCHANGED <<world_size, initial_seed, module, orig, last_input>>

\* Every rank calls Linear1D_Col.from_native_module(module, process_group, ...).
ColFromNative(flag, skip) ==
    /\ NoCallYet
    /\ \A r \in Ranks : module[r].present
    /\ LET k == [flag |-> flag, skip_bias_add |-> skip, stream_chunk_num |-> 1]
           o == [r \in Ranks |->
                    Linear1D_Col_from_native_module(r, world_size, module[r], k,
                                                    initial_seed[r], rng[r])]
       IN  /\ layer' = [r \in Ranks |-> o[r].layer]
           /\ module' = [r \in Ranks |-> Converted(module[r], o[r].layer)]
           /\ rng' = [r \in Ranks |-> o[r].rng]
           /\ result' = [r \in Ranks |-> ConstructResult(o[r])]
           /\ events' = [r \in Ranks |-> o[r].ev]
    /\ call' = [name |-> "Col.from_native_module", bias |-> module[0].has_bias,
                skip_bias_add |-> skip, bias_given |-> module[0].has_bias,
                fail |-> "none", training |-> FALSE, rng |-> rng]
    /\ UNCHANGED runvars
    /\ UNCHANGED <<world_size, initial_seed, orig, last_input>>

\* Every rank calls Linear1D_Row.from_native_module(module, process_group, ...).
RowFromNative(flag, skip, chunks) ==
    /\ NoCallYet
    /\ \A r \in Ranks : module[r].present
    /\ LET k == [flag |-> flag, skip_bias_add |-> skip, stream_chunk_num |-> chunks]
           o == [r \in Ranks |->
                    Linear1D_Row_from_native_module(r, world_size, module[r], k,
                                                    initial_seed, rng[r])]
       IN  /\ layer' = [r \in Ranks |-> o[r].layer]
           /\ module' = [r \in Ranks |-> Converted(module[r], o[r].layer)]
           /\ rng' = [r \in Ranks |-> o[r].rng]
           /\ result' = [r \in Ranks |-> ConstructResult(o[r])]
           /\ events' = [r \in Ranks |-> o[r].ev]
    /\ call' = [name |-> "Row.from_native_module", bias |-> module[0].has_bias,
                skip_bias_add |-> skip, bias_given |-> module[0].has_bias,
                fail |-> "none", training |-> FALSE, rng |-> rng]
    /\ UNCHANGED runvars
    /\ UNCHANGED <<world_size, initial_seed, orig, last_input>>

\* layer.train() / layer.eval() on every rank.
SetTraining(mode) ==
    /\ \A r \in Ranks : layer[r].kind \in {"col", "row"} /\ layer[r].training # mode
    /\ layer' = [r \in Ranks |-> [layer[r] EXCEPT !.training = mode]]
    /\ UNCHANGED runvars
    /\ UNCHANGED <<world_size, initial_seed, rng, module, orig, result, events, last_input, call>>

\* The inputs of forward: the zero vector and the unit vectors of the layer's
\* width (a linear layer's output on them gives its bias and each column of
\* its weight), and the all-ones vector of every length (of the layer's
\* width, and of the shapes the layer rejects).
Ones(len) == [j \in 1 .. len |-> 1]

Unit(len, k) == [j \in 1 .. len |-> IF j = k THEN 1 ELSE 0]

Inputs(width) ==
    {Unit(width, k) : k \in 0 .. width} \cup {Ones(len) : len \in 1 .. (MaxFeat + 1)}

\* Every rank calls forward with the replicated input x.
ColForward(x) ==
    /\ \A r \in Ranks : layer[r].kind = "col"
    /\ LET xs == [r \in Ranks |-> x]
       IN  /\ result' = [r \in Ranks |-> Linear1D_Col_forward(r, world_size, layer, xs)]
           /\ events' = [r \in Ranks |-> Linear1D_Col_forward_events(layer[r], x)]
    /\ last_input' = x
    /\ call' = [NoCall EXCEPT !.name = "Col.forward", !.training = layer[0].training]
    /\ UNCHANGED runvars
    /\ UNCHANGED <<world_size, initial_seed, rng, module, orig, layer>>

\* Every rank calls forward: with the replicated input x, or, with
\* parallel_input, each with its block of x.
RowForward(x) ==
    /\ \A r \in Ranks : layer[r].kind = "row"
    /\ LET xs == [r \in Ranks |->
                    IF layer[r].flag THEN Block(x, Len(x) \div world_size, r) ELSE x]
       IN  /\ result' = [r \in Ranks |-> Linear1D_Row_forward(r, world_size, layer, xs)]
           /\ events' = [r \in Ranks |-> Linear1D_Row_forward_events(layer[r], world_size, xs[r])]
           /\ last_input' = IF layer[0].flag THEN CatUpTo(xs, world_size - 1) ELSE x
    /\ call' = [NoCall EXCEPT !.name = "Row.forward", !.training = layer[0].training]
    /\ UNCHANGED runvars
    /\ UNCHANGED <<world_size, initial_seed, rng, module, orig, layer>>

Fails == {"none", "weight", "bias", "broadcast"}

Next ==
    \/ \E in_f \in 1 .. MaxFeat, out_f \in 1 .. MaxFeat, bias \in BOOLEAN :
          NewDense(in_f, out_f, bias)
    \/ \E in_f \in 1 .. MaxFeat, out_f \in 1 .. MaxFeat,
          bias \in BOOLEAN, flag \in BOOLEAN, skip \in BOOLEAN,
          bias_given \in BOOLEAN, fail \in Fails \ {"broadcast"} :
          ColConstruct(in_f, out_f, bias, flag, skip, bias_given, fail)
    \/ \E in_f \in 1 .. MaxFeat, out_f \in 1 .. MaxFeat,
          bias \in BOOLEAN, flag \in BOOLEAN, skip \in BOOLEAN,
          bias_given \in BOOLEAN, chunks \in 1 .. MaxChunk, fail \in Fails :
          RowConstruct(in_f, out_f, bias, flag, skip, bias_given, chunks, fail)
    \/ \E flag \in BOOLEAN, skip \in BOOLEAN : ColFromNative(flag, skip)
    \/ \E flag \in BOOLEAN, skip \in BOOLEAN, chunks \in 1 .. MaxChunk :
          RowFromNative(flag, skip, chunks)
    \/ \E mode \in BOOLEAN : SetTraining(mode)
    \/ \E x \in Inputs(layer[0].in_features) : ColForward(x)
    \/ \E x \in Inputs(layer[0].in_features) : RowForward(x)

\* ---------------------------------------------------------------- properties
\* Whether the layers were converted from dense modules, and whether every
\* rank's dense module held the same values.
FromNative == orig[0].present

Replicated == \A r \in Ranks : orig[r] = orig[0]

\* The full tensors the ranks' shards make up, in rank order.
GatheredColWeight == CatUpTo([r \in Ranks |-> layer[r].weight], world_size - 1)

GatheredColBias == CatUpTo([r \in Ranks |-> layer[r].bias], world_size - 1)

GatheredRowWeight == CatColsUpTo([r \in Ranks |-> layer[r].weight], world_size - 1)

GatheredOutput == CatUpTo([r \in Ranks |-> result[r].output], world_size - 1)

ForwardReturned(kind) ==
    /\ layer[0].kind = kind
    /\ \A r \in Ranks : result[r].op = "forward" /\ result[r].err = "none"

\* The column layer's output against the dense layer (W, b): every rank's
\* output when gathered, the rank-order concatenation when not.
ColMatchesDense(W, has_bias, b) ==
    LET dense == F_linear(last_input, W, has_bias, b)
    IN  IF layer[0].flag
        THEN \A r \in Ranks : result[r].output = dense
        ELSE GatheredOutput = dense

\* C1: the outputs of the ranks' Linear1D_Col.forward, concatenated in rank
\* order (gather_output off) or each on its own (gather_output on), equal the
\* output of the dense layer with the same weight and bias: the layer made of
\* the ranks' shards and, for a layer converted from a replicated dense
\* module, that module.  The bias is part of the output exactly when
\* skip_bias_add is off.
C1_ColumnEqualsDense ==
    ForwardReturned("col") =>
        /\ ColMatchesDense(GatheredColWeight,
                           layer[0].has_bias /\ ~layer[0].skip_bias_add, GatheredColBias)
        /\ (FromNative /\ Replicated) =>
              ColMatchesDense(orig[0].weight,
                              orig[0].has_bias /\ ~layer[0].skip_bias_add, orig[0].bias)

C1_Witness ==
    /\ ForwardReturned("col")
    /\ world_size = 2
    /\ FromNative /\ Replicated
    /\ layer[0].has_bias /\ ~layer[0].skip_bias_add /\ ~layer[0].flag
    /\ last_input = Ones(layer[0].in_features)
    /\ result[0].output # result[1].output

\* C3: after Linear1D_Col.from_native_module every rank holds the rows of its
\* dense weight that belong to its rank, unchanged and in order, the shards
\* have out_features rows in all, and for a replicated dense module their
\* concatenation in rank order is the dense weight.
C3_ColShardsReproduceWeight ==
    (FromNative /\ layer[0].kind = "col") =>
        /\ \A r \in Ranks :
              /\ Len(layer[r].weight) * world_size = orig[r].out_features
              /\ \A i \in 1 .. Len(layer[r].weight) :
                    layer[r].weight[i] = orig[r].weight[r * Len(layer[r].weight) + i]
        /\ Replicated => GatheredColWeight = orig[0].weight

C3_Witness ==
    /\ FromNative /\ layer[0].kind = "col" /\ Replicated
    /\ world_size = 2
    /\ layer[0].weight # layer[1].weight
    /\ GatheredColWeight = orig[0].weight

\* The feature count from_native_module shards: out_features for the column
\* layer, in_features for the row layer.
ShardedFeature ==
    IF call.name = "Col.from_native_module" THEN orig[0].out_features
    ELSE orig[0].in_features

Converting == call.name \in {"Col.from_native_module", "Row.from_native_module"}

\* C4: a conversion of a module whose sharded feature count is below the world
\* size returns the module itself, raises nothing and leaves the module's
\* weight and bias as they were.
C4_SmallFeatureFallback ==
    (Converting /\ ShardedFeature < world_size) =>
        \A r \in Ranks :
            /\ result[r].err = "none"
            /\ layer[r] = AsLayer(orig[r])
            /\ module[r] = orig[r]

C4_Witness ==
    /\ Converting /\ ShardedFeature < world_size
    /\ ShardedFeature % world_size # 0
    /\ call.name = "Row.from_native_module"
    /\ layer[1].kind = "dense"

\* What a call must not have done for it to have failed before building,
\* sharding or communicating anything.
Built ==
    {"alloc_weight", "alloc_bias", "shard_weight", "shard_bias", "chunk_weight",
     "fork_enter", "init_weight", "init_bias", "broadcast"}

NothingBuilt(r) ==
    /\ layer[r].kind = "none"
    /\ \A i \in 1 .. Len(events[r]) : events[r][i] \notin Built

\* C5: a conversion of a module whose sharded feature count is at least the
\* world size and not a multiple of it raises the divisibility error naming
\* the feature count and the world size, before the constructor is entered,
\* with the module's weight and bias untouched and no collective issued.
C5_DivisibilityError ==
    (Converting /\ ShardedFeature >= world_size /\ ShardedFeature % world_size # 0) =>
        \A r \in Ranks :
            /\ result[r].err = "ValueError"
            /\ result[r].msg = <<ShardedFeature, world_size>>
            /\ NothingBuilt(r)
            /\ "randomizer" \notin {events[r][i] : i \in 1 .. Len(events[r])}
            /\ module[r] = orig[r]

C5_Witness ==
    /\ Converting /\ world_size = 2 /\ ShardedFeature = 3
    /\ result[1].err = "ValueError"
    /\ result[1].msg = <<3, 2>>

\* The row layer's logical input has the layer's width: the shape check of
\* forward passes on every rank.
ValidRowInput == Len(last_input) = layer[0].in_features

\* Every rank's row-layer output against the dense layer (W, b).
RowMatchesDense(W, has_bias, b) ==
    \A r \in Ranks : result[r].output = F_linear(last_input, W, has_bias, b)

RowOutputsMatchDense ==
    /\ \A r \in Ranks :
          result[r].output =
              F_linear(last_input, GatheredRowWeight,
                       layer[r].has_bias /\ ~layer[r].skip_bias_add, layer[r].bias)
    /\ (FromNative /\ Replicated) =>
          RowMatchesDense(orig[0].weight,
                          orig[0].has_bias /\ ~layer[0].skip_bias_add, orig[0].bias)

\* C2: Linear1D_Row.forward, given an input of the layer's width, returns on
\* every rank the dense layer's output, in Standard mode and in
\* Chunked-Inference mode (stream_chunk_num > 1, not training), the bias added
\* once, after the reduction.
C2_RowEqualsDense ==
    (/\ call.name = "Row.forward"
     /\ ValidRowInput
     /\ ~(layer[0].stream_chunk_num > 1 /\ call.training)) =>
        /\ \A r \in Ranks : result[r].err = "none"
        /\ RowOutputsMatchDense

\* The events of a matmul, a reduction or what follows them.
Computes(r) ==
    \E i \in 1 .. Len(events[r]) :
        events[r][i] \in {"matmul", "all_reduce", "all_reduce_async", "wait", "cat"}

ChunkedWhileTraining ==
    call.name = "Row.forward" /\ call.training /\ layer[0].stream_chunk_num > 1

\* C6 as stated: forward of a chunked row layer in training mode raises the
\* training-incompatibility error for every input.
C6_TrainingErrorEveryInput ==
    ChunkedWhileTraining =>
        \A r \in Ranks : result[r].err = "RuntimeError" /\ ~Computes(r)

\* C6: forward of a chunked row layer in training mode, given an input that
\* passes the shape check, raises the training-incompatibility error; given
\* any other input it raises the shape assertion instead; in both cases no
\* chunk matmul is computed and no all-reduce is issued.
C6_TrainingErrorValidShape ==
    ChunkedWhileTraining =>
        \A r \in Ranks :
            /\ result[r].err = (IF ValidRowInput THEN "RuntimeError" ELSE "AssertionError")
            /\ ~Computes(r)

C6_Witness ==
    /\ ChunkedWhileTraining /\ ValidRowInput
    /\ world_size = 2
    /\ result[1].err = "RuntimeError"
    /\ last_input = Ones(layer[0].in_features)

\* C7: a construction with skip_bias_add and without bias, direct or through
\* from_native_module, raises ValueError with nothing allocated, sharded,
\* initialized or communicated, the ambient generator and the dense module as
\* they were.
C7_ContradictoryBiasRejected ==
    (/\ \/ call.name \in {"Col.__init__", "Row.__init__"}
        \/ Converting /\ ShardedFeature >= world_size /\ ShardedFeature % world_size = 0
     /\ call.skip_bias_add /\ ~call.bias) =>
        \A r \in Ranks :
            /\ result[r].err = "ValueError" /\ result[r].msg = << >>
            /\ NothingBuilt(r)
            /\ rng[r] = call.rng[r]
            /\ module[r] = orig[r]

C7_Witness ==
    /\ call.name = "Row.__init__"
    /\ call.skip_bias_add /\ ~call.bias
    /\ world_size = 2
    /\ result[1].err = "ValueError"
    /\ events[1] = <<"get_world_size">>

HasRowBias == layer[0].kind = "row" /\ layer[0].has_bias

\* C8 as stated: the bias of a row layer, freshly built or converted, is a full
\* [out_features] tensor with the same value on every rank.
C8_RowBiasIdenticalEverywhere ==
    HasRowBias =>
        \A r \in Ranks :
            /\ Len(layer[r].bias) = layer[r].out_features
            /\ layer[r].bias = layer[0].bias

\* C8: the bias of a row layer is a full, unsharded [out_features] tensor.
\* Freshly built, it has on every rank the value rank 0 initialized
\* (broadcast).  Converted, it is the rank's own dense bias, unchanged and not
\* broadcast: identical on every rank when the dense modules' biases were.
C8_RowBiasReplica ==
    HasRowBias =>
        \A r \in Ranks :
            /\ Len(layer[r].bias) = layer[r].out_features
            /\ (~FromNative) => layer[r].bias = layer[0].bias
            /\ FromNative => layer[r].bias = orig[r].bias
            /\ (FromNative /\ Replicated) => layer[r].bias = layer[0].bias
            /\ call.name = "Row.from_native_module" =>
                  \A i \in 1 .. Len(events[r]) : events[r][i] # "broadcast"

C8_Witness ==
    /\ HasRowBias /\ ~FromNative
    /\ world_size = 2
    /\ call.name = "Row.__init__"
    /\ events[1][Len(events[1]) - 1] = "broadcast"
    /\ layer[1].bias = layer[0].bias
    /\ layer[1].weight # layer[0].weight

\* C9: with skip_bias_add, forward of either layer returns the pair
\* (output, bias), the output free of any bias term and the bias the layer's
\* own (the column layer's local shard also when the output is gathered, the
\* row layer's replica); without it, forward returns the output alone, with
\* the layer's bias added.
C9_SkipBiasAddReturnsPair ==
    /\ ForwardReturned("col") =>
          \A r \in Ranks :
              IF layer[r].skip_bias_add
              THEN /\ result[r].is_tuple
                   /\ result[r].has_bias /\ result[r].bias = layer[r].bias
                   /\ Len(result[r].bias) * world_size = layer[r].out_features
                   /\ ColMatchesDense(GatheredColWeight, FALSE, << >>)
              ELSE /\ ~result[r].is_tuple
                   /\ ColMatchesDense(GatheredColWeight, layer[r].has_bias, GatheredColBias)
    /\ ForwardReturned("row") =>
          \A r \in Ranks :
              IF layer[r].skip_bias_add
              THEN /\ result[r].is_tuple
                   /\ result[r].has_bias /\ result[r].bias = layer[r].bias
                   /\ Len(result[r].bias) = layer[r].out_features
                   /\ result[r].output = F_linear(last_input, GatheredRowWeight, FALSE, << >>)
              ELSE /\ ~result[r].is_tuple
                   /\ result[r].output =
                         F_linear(last_input, GatheredRowWeight, layer[r].has_bias, layer[r].bias)

C9_Witness ==
    /\ ForwardReturned("col")
    /\ world_size = 2
    /\ layer[0].skip_bias_add /\ layer[0].flag
    /\ result[1].is_tuple
    /\ Len(result[1].output) = layer[1].out_features
    /\ Len(result[1].bias) * 2 = layer[1].out_features
    /\ last_input = Ones(layer[0].in_features)

\* C10: a fresh construction of either layer leaves every rank's ambient
\* random generator in the state it had before the call, whether the
\* constructor returned or an initializer or the bias broadcast raised.
C10_AmbientRngRestored ==
    call.name \in {"Col.__init__", "Row.__init__"} =>
        \A r \in Ranks : rng[r] = call.rng[r]

C10_Witness ==
    /\ call.name = "Row.__init__" /\ call.fail = "broadcast"
    /\ world_size = 2
    /\ result[1].err = "InitError"
    /\ events[1][Len(events[1])] = "fork_exit"
    /\ events[1][Len(events[1]) - 1] = "broadcast"
    /\ rng[1] = call.rng[1]

\* The blocks weight_list names, concatenated along dimension 0.
ChunksConcatenated(lay) ==
    Flatten([k \in 1 .. Len(lay.weight_list) |-> ChunkOf(lay, k - 1)])

ChunkedRow(r) == layer[r].kind = "row" /\ layer[r].stream_chunk_num > 1

\* C12: a Linear1D_Row built with stream_chunk_num n > 1 holds a weight_list
\* of exactly n blocks of its weight shard, split along dimension 0, whose
\* concatenation is the weight shard, so that forward can read weight_list[i]
\* for every i in 0 .. n-1 and never fails on a missing chunk, whatever
\* out_features is.
C12_WeightListHasEveryChunk ==
    /\ \A r \in Ranks :
          ChunkedRow(r) =>
              /\ Len(layer[r].weight_list) = layer[r].stream_chunk_num
              /\ ChunksConcatenated(layer[r]) = layer[r].weight
    /\ \A r \in Ranks : result[r].err # "IndexError"

\* ---------------------------------------------------------------- life of a row layer
\* layer.reset_parameters(weight_initializer, bias_initializer) called on
\* every rank of a constructed row layer.  The call is made outside any
\* fork_rng context, so the initializers draw from the ambient generator; the
\* tensors are filled in place, so weight_list keeps naming the same rows.
RowResetParameters(fail) ==
    /\ \A r \in Ranks : layer[r].kind = "row"
    /\ rng[0] < initial_seed[0] + MaxDraws
    /\ LET lays == [q \in Ranks |-> [layer[q] EXCEPT !.randomizer = rng[q]]]
           rp(r) == Linear1D_Row_reset_parameters(r, world_size, lays, fail)
       IN  /\ layer' = [r \in Ranks |->
                           [rp(r).layer EXCEPT !.randomizer = layer[r].randomizer]]
           /\ rng' = [r \in Ranks |-> rng[r] + rp(r).used]
           /\ result' = [r \in Ranks |->
                           [NoResult EXCEPT !.op = "reset_parameters", !.err = rp(r).err]]
           /\ events' = [r \in Ranks |-> rp(r).ev]
    /\ call' = [NoCall EXCEPT !.name = "Row.reset_parameters", !.fail = fail,
                              !.training = layer[0].training, !.rng = rng]
    /\ UNCHANGED runvars
    /\ UNCHANGED <<world_size, initial_seed, module, orig, last_input>>

\* A row layer from its construction on: forward calls, train() / eval()
\* switches and parameter resets, in any order.
NextLife ==
    \/ \E in_f \in 1 .. MaxFeat, out_f \in 1 .. MaxFeat,
          bias \in BOOLEAN, flag \in BOOLEAN, skip \in BOOLEAN,
          chunks \in 1 .. MaxChunk :
          RowConstruct(in_f, out_f, bias, flag, skip, FALSE, chunks, "none")
    \/ \E mode \in BOOLEAN : SetTraining(mode)
    \/ \E x \in Inputs(layer[0].in_features) : RowForward(x)
    \/ \E fail \in Fails : RowResetParameters(fail)

SpecLife == Init /\ [][NextLife]_vars

Has(seq, e) == \E i \in 1 .. Len(seq) : seq[i] = e

\* Every rank's row layer keeps its chunk count (and stays a row layer).
ModeKept ==
    \A r \in Ranks :
        layer[r].kind = "row" =>
            /\ layer'[r].kind = "row"
            /\ layer'[r].stream_chunk_num = layer[r].stream_chunk_num

\* What the last forward of a row layer did, against the layer's chunk count.
PathFollowsMode ==
    (call.name = "Row.forward" /\ layer[0].kind = "row") =>
        \A r \in Ranks :
            /\ layer[r].stream_chunk_num >= 1
            /\ layer[r].stream_chunk_num > 1 => ~Has(events[r], "all_reduce")
            /\ layer[r].stream_chunk_num = 1 =>
                  /\ ~Has(events[r], "all_reduce_async")
                  /\ ~Has(events[r], "wait") /\ ~Has(events[r], "cat")
                  /\ ValidRowInput =>
                        /\ result[r].err = "none"
                        /\ Has(events[r], "all_reduce")

\* C13: a row layer's mode is the chunk count it was constructed with
\* (Standard when 1, Chunked-Inference when greater) and no forward call,
\* train() / eval() switch or parameter reset changes it; a forward of a
\* chunked layer never makes the single synchronous reduction, a forward of a
\* standard layer never makes an asynchronous reduction, wait or
\* concatenation, and a standard layer's forward on a valid input returns in
\* training mode as in inference mode.
C13_ModeFixedAtConstruction == [](PathFollowsMode) /\ [][ModeKept]_vars

C13_Witness ==
    /\ call.name = "Row.forward" /\ call.training
    /\ world_size = 2
    /\ layer[0].stream_chunk_num = 1 /\ ~layer[0].training
    /\ rng[0] > initial_seed[0]
    /\ ValidRowInput
    /\ result[1].err = "none" /\ Has(events[1], "all_reduce")

\* ---------------------------------------------------------------- one forward, rank by rank
\* Every rank is a process of its own: it holds its own layer and runs its
\* own forward, one step at a time, and the ranks' steps interleave.  The
\* ranks meet only in the collectives of the process group.

\* A collective call as the group sees it.
Collective(op, data) == [op |-> op, data |-> data]

\* The k-th collective of the group can complete: every rank has issued its
\* k-th call and the calls match (same operation, same tensor size).
Matched(calls, P, k) ==
    \A q \in 0 .. P - 1 :
        /\ Len(calls[q]) >= k
        /\ calls[q][k].op = calls[0][k].op
        /\ Len(calls[q][k].data) = Len(calls[0][k].data)

\* What the k-th collective leaves on every rank once it has completed.
CollectiveResult(calls, P, k) ==
    IF calls[0][k].op = "all_reduce"
    THEN reduce_forward([q \in 0 .. P - 1 |-> calls[q][k].data], P)
    ELSE gather_forward_split_backward([q \in 0 .. P - 1 |-> calls[q][k].data], P)

\* A chunked branch that concatenates as soon as the last reduction is issued.
Row_chunked_next_nowait(lay, f, at) ==
    IF at = "loop"
    THEN (IF f.i < lay.stream_chunk_num THEN "loop" ELSE "cat")
    ELSE (IF f.waited < Len(f.handle_list) THEN "wait" ELSE "cat")

\* A chunked branch that waits on the first handle only.
Row_chunked_next_waitone(lay, f, at) ==
    IF at = "loop"
    THEN (IF f.i < lay.stream_chunk_num THEN "loop" ELSE "wait")
    ELSE "cat"

\* Control flow of the chunked branch: where the rank goes after an iteration
\* of `for i in range(self.stream_chunk_num)` and after a handle.wait() of
\* `for handle in handle_list`.  f: the locals after the step.
Row_chunked_next(lay, f, at) ==
    IF at = "loop"
    THEN (IF f.i < lay.stream_chunk_num THEN "loop" ELSE "wait")
    ELSE (IF f.waited < Len(f.handle_list) THEN "wait" ELSE "cat")

\* The end of Linear1D_Row.forward: the bias is added unless skip_bias_add.
Row_return(lay, output) ==
    IF ~lay.skip_bias_add
    THEN [op |-> "forward", err |-> "none", msg |-> << >>, is_tuple |-> FALSE,
          output |-> IF lay.has_bias
                     THEN [i \in 1 .. Len(output) |-> output[i] + lay.bias[i]]
                     ELSE output,
          has_bias |-> FALSE, bias |-> << >>]
    ELSE [op |-> "forward", err |-> "none", msg |-> << >>, is_tuple |-> TRUE,
          output |-> output, has_bias |-> lay.has_bias, bias |-> lay.bias]

\* The end of Linear1D_Col.forward.
Col_return(lay, output) ==
    [op |-> "forward", err |-> "none", msg |-> << >>,
     is_tuple |-> lay.skip_bias_add, output |-> output,
     has_bias |-> lay.skip_bias_add /\ lay.has_bias,
     bias |-> IF lay.skip_bias_add THEN lay.bias ELSE << >>]

Raised(e) == [NoResult EXCEPT !.op = "forward", !.err = e]

\* What a step of rank r leaves alone.
RunFrame == UNCHANGED <<world_size, initial_seed, rng, module, orig, layer, last_input, call>>

\* Linear1D_Row.forward up to the branch: the shape assertion, the split of
\* a replicated input, the training check.
RowStart(r) ==
    /\ pc[r] = "start" /\ layer[r].kind = "row"
    /\ LET lay == layer[r]
           x   == fw[r].arg
           n   == lay.stream_chunk_num
       IN  IF ~Row_shape_ok(lay, world_size, x)
           THEN /\ pc' = [pc EXCEPT ![r] = "raised"]
                /\ result' = [result EXCEPT ![r] = Raised("AssertionError")]
                /\ UNCHANGED <<fw, events>>
           ELSE /\ fw' = [fw EXCEPT
                            ![r].input_ = Row_input(lay, world_size, r, x),
                            ![r].output_parallel_list =
                                IF Row_path(lay) = "chunked"
                                THEN [k \in 1 .. n |-> << >>] ELSE << >>]
                /\ events' = [events EXCEPT ![r] =
                                 IF lay.flag THEN @ ELSE Append(@, <<"split", 0>>)]
                /\ IF Row_path(lay) = "training_error"
                   THEN /\ pc' = [pc EXCEPT ![r] = "raised"]
                        /\ result' = [result EXCEPT ![r] = Raised("RuntimeError")]
                   ELSE /\ pc' = [pc EXCEPT ![r] =
                                     IF Row_path(lay) = "chunked" THEN "loop" ELSE "standard"]
                        /\ UNCHANGED result
    /\ UNCHANGED issued
    /\ RunFrame

\* One iteration of the chunk loop: the matmul with weight_list[i] and the
\* all_reduce(async_op=True) of its result, which returns a handle at once.
RowChunk(r) ==
    /\ pc[r] = "loop"
    /\ LET lay  == layer[r]
           i    == fw[r].i
           part == F_linear(fw[r].input_, ChunkOf(lay, i), FALSE, << >>)
           f    == [fw[r] EXCEPT !.output_parallel_list[i + 1] = part,
                                 !.handle_list = Append(@, Len(issued[r]) + 1),
                                 !.i = i + 1]
       IN  IF i >= Len(lay.weight_list)
           THEN /\ pc' = [pc EXCEPT ![r] = "raised"]
                /\ result' = [result EXCEPT ![r] = Raised("IndexError")]
                /\ UNCHANGED <<fw, issued, events>>
           ELSE /\ issued' = [issued EXCEPT ![r] = Append(@, Collective("all_reduce", part))]
                /\ fw' = [fw EXCEPT ![r] = f]
                /\ pc' = [pc EXCEPT ![r] = Row_chunked_next(lay, f, "loop")]
                /\ events' = [events EXCEPT ![r] =
                                 @ \o <<<<"matmul", i>>, <<"all_reduce_async", i>>>>]
                /\ UNCHANGED result
    /\ RunFrame

\* handle.wait() on the next handle of handle_list: returns once the
\* reduction has completed, which leaves the sum in output_parallel_list.
RowWait(r) ==
    /\ pc[r] = "wait"
    /\ LET w == fw[r].waited
           h == fw[r].handle_list[w + 1]
           f == [fw[r] EXCEPT
                   !.output_parallel_list[w + 1] = CollectiveResult(issued, world_size, h),
                   !.waited = w + 1]
       IN  /\ Matched(issued, world_size, h)
           /\ fw' = [fw EXCEPT ![r] = f]
           /\ pc' = [pc EXCEPT ![r] = Row_chunked_next(layer[r], f, "wait")]
           /\ events' = [events EXCEPT ![r] = Append(@, <<"wait", w>>)]
    /\ UNCHANGED <<issued, result>>
    /\ RunFrame

\* torch.cat(output_parallel_list, dim=-1) and the return.
RowCat(r) ==
    /\ pc[r] = "cat"
    /\ result' = [result EXCEPT ![r] =
                     Row_return(layer[r], Flatten(fw[r].output_parallel_list))]
    /\ events' = [events EXCEPT ![r] = Append(@, <<"cat", Len(fw[r].output_parallel_list)>>)]
    /\ pc' = [pc EXCEPT ![r] = "returned"]
    /\ UNCHANGED <<fw, issued>>
    /\ RunFrame

\* The standard branch: the matmul with the whole shard and the call of
\* reduce_forward, which issues one all-reduce and blocks until it completes.
RowStandard(r) ==
    /\ pc[r] = "standard"
    /\ LET part == F_linear(fw[r].input_, layer[r].weight, FALSE, << >>)
       IN  /\ issued' = [issued EXCEPT ![r] = Append(@, Collective("all_reduce", part))]
           /\ fw' = [fw EXCEPT ![r].output_parallel = part]
    /\ events' = [events EXCEPT ![r] = @ \o <<<<"matmul", 0>>, <<"all_reduce", 0>>>>]
    /\ pc' = [pc EXCEPT ![r] = "reduce"]
    /\ UNCHANGED result
    /\ RunFrame

RowReduce(r) ==
    /\ pc[r] = "reduce"
    /\ Matched(issued, world_size, Len(issued[r]))
    /\ result' = [result EXCEPT ![r] =
                     Row_return(layer[r], CollectiveResult(issued, world_size, Len(issued[r])))]
    /\ pc' = [pc EXCEPT ![r] = "returned"]
    /\ UNCHANGED <<fw, issued, events>>
    /\ RunFrame

\* Linear1D_Col.forward up to the gather: the shape assertion, the matmul,
\* and with gather_output the call of gather_forward_split_backward, which
\* issues one all-gather and blocks until it completes.
ColStart(r) ==
    /\ pc[r] = "start" /\ layer[r].kind = "col"
    /\ LET lay == layer[r]
           x   == fw[r].arg
           output_parallel ==
               F_linear(x, lay.weight, lay.has_bias /\ ~lay.skip_bias_add, lay.bias)
       IN  IF Len(x) # Len(lay.weight[1])
           THEN /\ pc' = [pc EXCEPT ![r] = "raised"]
                /\ result' = [result EXCEPT ![r] = Raised("AssertionError")]
                /\ UNCHANGED <<fw, issued, events>>
           ELSE /\ fw' = [fw EXCEPT ![r].input_ = x, ![r].output_parallel = output_parallel]
                /\ IF lay.flag
                   THEN /\ issued' = [issued EXCEPT ![r] =
                                         Append(@, Collective("all_gather", output_parallel))]
                        /\ events' = [events EXCEPT ![r] =
                                         @ \o <<<<"matmul", 0>>, <<"all_gather", 0>>>>]
                        /\ pc' = [pc EXCEPT ![r] = "gather"]
                        /\ UNCHANGED result
                   ELSE /\ events' = [events EXCEPT ![r] = Append(@, <<"matmul", 0>>)]
                        /\ result' = [result EXCEPT ![r] = Col_return(lay, output_parallel)]
                        /\ pc' = [pc EXCEPT ![r] = "returned"]
                        /\ UNCHANGED issued
    /\ RunFrame

ColGather(r) ==
    /\ pc[r] = "gather"
    /\ Matched(issued, world_size, Len(issued[r]))
    /\ result' = [result EXCEPT ![r] =
                     Col_return(layer[r], CollectiveResult(issued, world_size, Len(issued[r])))]
    /\ pc' = [pc EXCEPT ![r] = "returned"]
    /\ UNCHANGED <<fw, issued, events>>
    /\ RunFrame

\* The ways one rank's call can differ from the others'.
Deviations == {"none", "stream_chunk_num", "flag", "training", "shape"}

\* The layers of a group and the forward each rank is about to run.  Every
\* rank built its layer with the same sizes; rank d may have been given
\* another stream_chunk_num (alt) or gather_output / parallel_input, be in
\* the other training mode, or pass an input of another width.
InitRun ==
    /\ world_size \in 1 .. MaxWorld
    /\ initial_seed = [r \in 0 .. (world_size - 1) |-> 0]
    /\ rng = initial_seed
    /\ module = [r \in 0 .. (world_size - 1) |-> NoModule]
    /\ orig = module
    /\ \E kind \in {"col", "row"}, out_f \in 1 .. MaxFeat, bias \in BOOLEAN,
          flag \in BOOLEAN, skip \in BOOLEAN, chunks \in 1 .. MaxChunk, alt \in 1 .. MaxChunk,
          training \in BOOLEAN, dev \in Deviations, d \in 0 .. (world_size - 1) :
          LET P == world_size
              in_f == P
              is(q, what) == dev = what /\ q = d
              a(q) == FreshArgs(in_f, out_f, bias, IF is(q, "flag") THEN ~flag ELSE flag,
                                skip, FALSE,
                                IF is(q, "stream_chunk_num") THEN alt ELSE chunks, "none")
              built(q) ==
                  IF kind = "col"
                  THEN Linear1D_Col__init__(q, P, a(q), initial_seed[q], rng[q]).layer
                  ELSE Linear1D_Row__init__(q, P, a(q), initial_seed, rng[q]).layer
              width(q) == IF kind = "row" /\ built(q).flag THEN in_f \div P ELSE in_f
          IN  /\ kind = "col" => (out_f % P = 0 /\ chunks = 1 /\ dev # "stream_chunk_num")
              /\ dev = "stream_chunk_num" => alt # chunks
              /\ dev # "stream_chunk_num" => alt = chunks
              /\ dev = "none" => d = 0
              /\ \A q \in 0 .. (P - 1) : built(q).kind = kind
              /\ layer = [q \in 0 .. (P - 1) |->
                            [built(q) EXCEPT
                               !.training = IF is(q, "training") THEN ~training ELSE training]]
              /\ fw = [q \in 0 .. (P - 1) |->
                         [NoForward EXCEPT
                            !.arg = Ones(width(q) + (IF is(q, "shape") THEN 1 ELSE 0))]]
              /\ last_input = Ones(in_f)
    /\ result = [r \in 0 .. (world_size - 1) |-> NoResult]
    /\ events = [r \in 0 .. (world_size - 1) |-> << >>]
    /\ call = [NoCall EXCEPT !.name = "forward"]
    /\ pc = [r \in 0 .. (world_size - 1) |-> "start"]
    /\ issued = [r \in 0 .. (world_size - 1) |-> << >>]

NextRun ==
    \/ \E r \in Ranks : RowStart(r)
    \/ \E r \in Ranks : RowChunk(r)
    \/ \E r \in Ranks : RowWait(r)
    \/ \E r \in Ranks : RowCat(r)
    \/ \E r \in Ranks : RowStandard(r)
    \/ \E r \in Ranks : RowReduce(r)
    \/ \E r \in Ranks : ColStart(r)
    \/ \E r \in Ranks : ColGather(r)

SpecRun == InitRun /\ [][NextRun]_vars

\* A step of rank r's process.
RankStep(r) ==
    /\ r \in Ranks
    /\ \/ RowStart(r) \/ RowChunk(r) \/ RowWait(r) \/ RowCat(r)
       \/ RowStandard(r) \/ RowReduce(r) \/ ColStart(r) \/ ColGather(r)

\* Every rank's process keeps running: a step it can take is taken.
SpecRunFair == SpecRun /\ \A r \in 0 .. (MaxWorld - 1) : WF_vars(RankStep(r))

\* ---------------------------------------------------------------- properties of a run
\* The entries of a rank's log with the given name, and their indices.
Named(log, name) == SelectSeq(log, LAMBDA e : e[1] = name)

Indices(log, name) == [k \in 1 .. Len(Named(log, name)) |-> Named(log, name)[k][2]]

UpTo(k) == [j \in 1 .. k |-> j - 1]

ConfigOf(lay) ==
    <<lay.kind, lay.in_features, lay.out_features, lay.has_bias, lay.flag,
      lay.skip_bias_add, lay.stream_chunk_num, lay.training>>

ValidArg(r) ==
    IF layer[r].kind = "row" THEN Row_shape_ok(layer[r], world_size, fw[r].arg)
    ELSE Len(fw[r].arg) = Len(layer[r].weight[1])

\* Every rank holds the same configuration and passes a valid input.
UniformRun == \A r \in Ranks : ConfigOf(layer[r]) = ConfigOf(layer[0]) /\ ValidArg(r)

\* Rank r's forward takes the chunked branch.
ChunkedRun(r) ==
    layer[r].kind = "row" /\ ValidArg(r) /\ Row_path(layer[r]) = "chunked"

\* The sum over the ranks of their products with chunk i of their shards.
ReducedChunk(i) ==
    reduce_forward([q \in Ranks |->
                       F_linear(fw[q].input_, ChunkOf(layer[q], i), FALSE, << >>)],
                   world_size)

WithRowBias(lay, v) ==
    IF lay.has_bias /\ ~lay.skip_bias_add THEN [j \in 1 .. Len(v) |-> v[j] + lay.bias[j]]
    ELSE v

\* C11: a rank in the chunked branch computes and issues the asynchronous
\* reduction of chunks 0, 1, ... in that order, each once, and waits on none
\* before all stream_chunk_num are issued; it then waits on the handles in
\* issue order, each once; it concatenates once, after every wait has
\* returned, as its last step.  When it has returned, block i of the output
\* columns is the reduced product with chunk i, so the output has
\* out_features columns in the order of the weight's rows: the dense
\* layer's output when the ranks' layers are configured alike.
C11_ChunkedForwardOrder ==
    \A r \in Ranks :
        ChunkedRun(r) =>
            LET lay == layer[r]
                n   == lay.stream_chunk_num
                log == events[r]
                iss == Indices(log, "all_reduce_async")
                ws  == Indices(log, "wait")
                out == result[r].output
            IN  /\ iss = UpTo(Len(iss)) /\ Len(iss) <= n
                /\ Indices(log, "matmul") = iss
                /\ Len(issued[r]) = Len(iss)
                /\ \A j \in 1 .. Len(iss) :
                      /\ fw[r].handle_list[j] = j
                      /\ issued[r][j].data = F_linear(fw[r].input_, ChunkOf(lay, j - 1), FALSE, << >>)
                /\ ws = UpTo(Len(ws)) /\ Len(ws) <= n
                /\ Len(ws) > 0 => Len(iss) = n
                /\ \A a \in 1 .. Len(log) : \A b \in (a + 1) .. Len(log) :
                      log[a][1] = "wait" => log[b][1] \in {"wait", "cat"}
                /\ Len(Named(log, "cat")) <= 1
                /\ Len(Named(log, "cat")) = 1 =>
                      /\ Len(ws) = n
                      /\ log[Len(log)][1] = "cat"
                /\ pc[r] = "returned" =>
                      /\ Len(Named(log, "cat")) = 1
                      /\ Len(out) = lay.out_features
                      /\ (\A q \in Ranks : layer[q].weight_list = lay.weight_list) =>
                            \A i \in 0 .. n - 1 :
                                SubSeq(out, lay.weight_list[i + 1][1], lay.weight_list[i + 1][2])
                                  = SubSeq(WithRowBias(lay, Flatten([k \in 1 .. n |-> ReducedChunk(k - 1)])),
                                           lay.weight_list[i + 1][1], lay.weight_list[i + 1][2])
                      /\ UniformRun =>
                            out = WithRowBias(lay, F_linear(last_input, GatheredRowWeight, FALSE, << >>))

C11_Witness ==
    /\ world_size = 2
    /\ ChunkedRun(0) /\ ChunkedRun(1)
    /\ layer[1].stream_chunk_num = 2 /\ layer[1].out_features = 3
    /\ layer[1].has_bias /\ ~layer[1].skip_bias_add
    /\ pc[1] = "returned" /\ pc[0] = "wait" /\ fw[0].waited = 1
    /\ Len(result[1].output) = 3
    /\ events[1][Len(events[1])] = <<"cat", 2>>

\* The collectives rank q has issued, as the group matches them: operation
\* and tensor size, in order.
Sig(q) == [k \in 1 .. Len(issued[q]) |-> <<issued[q][k].op, Len(issued[q][k].data)>>]

\* Rank q will issue no further collective in this forward.
FinishedIssuing(q) == pc[q] \in {"wait", "cat", "reduce", "gather", "returned", "raised"}

\* Rank r's k-th call can never complete: some rank made another call in
\* that position, or ended its sequence before it.
Unmatched(r, k) ==
    \E q \in Ranks :
        \/ Len(issued[q]) >= k /\ Sig(q)[k] # Sig(r)[k]
        \/ Len(issued[q]) < k /\ FinishedIssuing(q)

\* How many of its collectives rank r has seen complete.
CompletedCalls(r) == IF pc[r] = "returned" THEN Len(issued[r]) ELSE fw[r].waited

\* Rank q's forward issues no collective: it raises before any, or it is a
\* column layer without gather_output.
OmitsAll(q) ==
    \/ ~ValidArg(q)
    \/ layer[q].kind = "row" /\ Row_path(layer[q]) = "training_error"
    \/ layer[q].kind = "col" /\ ~layer[q].flag

\* Rank r's forward issues at least one collective.
IssuesSome(r) == ValidArg(r) /\ ~OmitsAll(r)

ExpectedCalls(lay) ==
    IF lay.kind = "row"
    THEN (IF Row_path(lay) = "standard" THEN 1
          ELSE IF Row_path(lay) = "chunked" THEN lay.stream_chunk_num ELSE 0)
    ELSE (IF lay.flag THEN 1 ELSE 0)

\* Every rank holds the same configuration, in one of the modes that run
\* (Standard, Chunked-Inference, Column), and passes a valid input.
UniformValidRun ==
    /\ UniformRun
    /\ layer[0].kind = "row" => Row_path(layer[0]) # "training_error"

\* Rank r's forward has returned, having issued the collectives of its mode
\* and seen every one of them complete.
ReturnedClean(r) ==
    /\ pc[r] = "returned"
    /\ Len(issued[r]) = ExpectedCalls(layer[r])
    /\ Sig(r) = Sig(0)
    /\ \A k \in 1 .. Len(issued[r]) : Matched(issued, world_size, k)
    /\ fw[r].waited = Len(fw[r].handle_list)

\* C15: when every rank holds a layer of the same configuration and calls
\* forward with a valid input of the same shape, no rank's forward raises,
\* every rank issues the same collectives (row: one reduction in Standard
\* mode, stream_chunk_num in Chunked-Inference mode; column: one gather
\* exactly with gather_output) and, the ranks being scheduled fairly, forward
\* eventually returns on every rank with no reduction left pending.
C15_UniformRunsReturn ==
    /\ [](UniformValidRun => \A r \in Ranks : pc[r] # "raised")
    /\ UniformValidRun ~> (\A r \in Ranks : ReturnedClean(r))

Spec == Init /\ [][Next]_vars
====
